---- MODULE Spec2Model ----
(***************************************************************************)
(* Narration of a screenplay run.                                          *)
(*                                                                         *)
(*  - src/screenpy/narration/narrator.py : the Narrator whose microphone   *)
(*    fans a channel invocation out to an ordered list of adapters.        *)
(*  - src/screenpy/pacing.py : the buffering Narrator (buffer,              *)
(*    buffer_mode, capacity, handler), the IndentManager and the beat      *)
(*    decorator.                                                           *)
(***************************************************************************)
EXTENDS Integers, Sequences, FiniteSets, TLC

(***************************************************************************)
(* Bounds of the model.                                                    *)
(***************************************************************************)
MaxAdapters == 3
MaxInvocations == 3
MaxRecords == 3
MaxScopes == 2
MaxIter == 3
MaxK == 3
MaxHandled == MaxRecords
MaxLines == 4         \* lines logged by the stdout adapter
MaxNest == 3          \* open with-blocks and indent level of the stdout adapter
MaxTagged == 2        \* act and scene functions decorated by the Allure adapter
MaxWrapped == 2       \* func_wrappers of the stdout adapter waiting to be called

(***************************************************************************)
(* Program constants.                                                      *)
(***************************************************************************)
ASIDE == 1
BEAT == 2
SCENE == 3
ACT == 4
DefaultCapacity == 100
INDENT_SIZE == 4      \* settings.INDENT_SIZE
INDENT_CHAR == " "    \* settings.INDENT_CHAR
None == "None"        \* Python's None
INFO == 20            \* logging.INFO, the level of logger.info
ERROR == 40           \* logging.ERROR, the default flush_level
AIRY == "airy"
LIGHT == "light"
NORMAL == "normal"
HEAVY == "heavy"
EXTREME == "extreme"

VARIABLES
    \* narration/narrator.py : Narrator
    adapters,       \* self.adapters, the ordered adapter list
    exits,          \* the local list `exits` of the channel invocation in progress
    calls,          \* adapter-visible effects, in order: wrap and close calls
    invocation,     \* number of channel invocations started so far
    channel,        \* the channel of the invocation in progress, "" when none
    current,        \* the number of the invocation in progress, 0 when none
    outer,          \* the invocations whose with-block encloses the one in
                    \* progress, innermost last: their number, channel and exits
    mic_error,      \* the exception the last channel operation let escape
    yielded,        \* the callables the channel invocations yielded to their
                    \* caller, in order, each with its invocation's number
    \* pacing.py : Narrator, OurHandler, IndentManager, beat decorator
    enabled,        \* Narrator.enabled
    buffer,         \* Narrator.buffer
    buffer_mode,    \* Narrator.buffer_mode
    capacity,       \* Narrator.capacity
    handled,        \* records OurHandler.beat / OurHandler.aside have narrated
    level,          \* indent.level
    scopes,         \* the caller's open with-blocks, innermost last
    raising,        \* an exception is propagating through the caller
    ran,            \* ids of the beats whose decorated function was called
    nextId,         \* identity of the next NarrationRecord made
    op,             \* the operation the caller performed last and the length the
                    \* buffer had when it was called (for an operation of the
                    \* stdout adapter: the indent level when it was called)
    \* the loop of TestBeat.test_log_buffering
    loop_pc, loop, limit, K, k,
    \* settings
    LOG_ACTIONS,    \* settings.LOG_ACTIONS
    \* narration/adapters/stdout_adapter.py : IndentManager, StdOutAdapter
    indent_enabled, \* indent.enabled
    log,            \* the lines StdOutAdapter.logger has logged, in order
    wrappers,       \* for each channel, the number of func_wrappers that
                    \* StdOutAdapter has yielded and that are not called yet
    \* narration/adapters/allure_adapter.py : AllureAdapter
    tags,           \* the decorations applied by act and scene, one per call
    \* pacing.py : ScreenPyLogger
    logger_buffer,      \* ScreenPyLogger.buffer
    logger_buffer_mode, \* ScreenPyLogger.buffer_mode
    logger_capacity,    \* ScreenPyLogger.capacity
    flush_level,        \* ScreenPyLogger.flush_level
    emitted,            \* the records logging.Logger.handle was given, in order
    logger_blocks,      \* the records_buffered blocks the caller has open
    logger_next,        \* identity of the next LogRecord made
    logger_op           \* the operation last performed on the logger and, for
                        \* handle, the level of its record (0 otherwise)

micVars == <<adapters, exits, calls, invocation, channel, current, outer,
            mic_error, yielded>>
pacingVars == <<enabled, buffer, buffer_mode, capacity, handled, level, scopes,
                raising, ran, nextId, op>>
loopVars == <<loop_pc, loop, limit, K, k>>
settingsVars == <<LOG_ACTIONS>>
stdoutVars == <<indent_enabled, log, wrappers>>
allureVars == <<tags>>
loggerVars == <<logger_buffer, logger_buffer_mode, logger_capacity, flush_level,
                emitted, logger_blocks, logger_next, logger_op>>
vars == <<micVars, pacingVars, loopVars, settingsVars, stdoutVars, allureVars,
          loggerVars>>

(***************************************************************************)
(* Helpers on sequences.                                                   *)
(***************************************************************************)
Range(s) == {s[i] : i \in 1..Len(s)}

RECURSIVE Reverse(_)
Reverse(s) == IF s = <<>> THEN <<>> ELSE Append(Reverse(Tail(s)), Head(s))

(***************************************************************************)
(* IndentManager, of pacing.py and of stdout_adapter.py alike: the text it *)
(* renders. A string is a sequence of characters.                          *)
(***************************************************************************)

\* Python's `s * n`: n copies of s, the empty string when n <= 0.
RECURSIVE Times(_, _)
Times(s, n) == IF n <= 0 THEN <<>> ELSE s \o Times(s, n - 1)

\* IndentManager.whitespace: `self.indent * settings.INDENT_CHAR`
whitespace == Times(<<INDENT_CHAR>>, INDENT_SIZE)

\* Mutant of str: the indentation is rendered whatever `enabled` says.
str_always(en, lvl) == Times(whitespace, lvl)

\* IndentManager.__str__
str(en, lvl) == IF en THEN Times(whitespace, lvl) ELSE <<>>

(***************************************************************************)
(* narration/narrator.py : Narrator                                        *)
(***************************************************************************)

\* A callable is the sequence of the adapters that decorated the caller's
\* work, innermost first; the work itself is the empty sequence.
Work == <<>>

\* The callable an adapter yields for func: its wrapper around func.
decorate(adapter, func) == Append(func, adapter)

\* `closure = adapter.beat(func, message); func = next(closure);
\*  exits.append(closure)` for each adapter, in list order: each adapter is
\* given the func the one before it yielded. `fails` is the adapter whose
\* generator raises when it is started by next(), 0 when none does: the raise
\* ends the loop.
RECURSIVE wrap_all(_, _, _, _, _)
wrap_all(ads, inv, ch, func, fails) ==
    IF ads = <<>> THEN <<>>
    ELSE <<[kind |-> "wrap", adapter |-> Head(ads), inv |-> inv, channel |-> ch,
            func |-> func, raised |-> (Head(ads) = fails)]>>
         \o (IF Head(ads) = fails THEN <<>>
             ELSE wrap_all(Tail(ads), inv, ch, decorate(Head(ads), func), fails))

\* The func left by the loop when no adapter raised.
RECURSIVE wrapped(_, _)
wrapped(ads, func) ==
    IF ads = <<>> THEN func ELSE wrapped(Tail(ads), decorate(Head(ads), func))

\* `for exit_ in exits: next(exit_, None)`: the closures are resumed in the
\* order in which they were appended.
RECURSIVE close_all(_, _, _)
close_all(exs, inv, ch) ==
    IF exs = <<>> THEN <<>>
    ELSE <<[kind |-> "close", adapter |-> Head(exs), inv |-> inv, channel |-> ch]>>
         \o close_all(Tail(exs), inv, ch)

\* The invocation in progress, whose with-block a nested invocation
\* suspends.
Frame == [inv |-> current, channel |-> channel, exits |-> exits]

\* The adapters that may raise when asked to wrap; 0: none does.
Failing == {0} \cup Range(adapters)

\* Mutant of Vocalize: the raise of an adapter is swallowed and the func at
\* hand is yielded to the caller.
Vocalize_swallows(ch, fails) ==
    /\ invocation < MaxInvocations
    /\ invocation' = invocation + 1
    /\ calls' = calls \o wrap_all(adapters, invocation + 1, ch, Work, fails)
    /\ outer' = IF channel = "" THEN outer ELSE Append(outer, Frame)
    /\ exits' = adapters
    /\ channel' = ch
    /\ current' = invocation + 1
    /\ mic_error' = "none"
    /\ yielded' = Append(yielded, [inv |-> invocation + 1,
                                   func |-> wrapped(adapters, Work)])
    /\ UNCHANGED adapters

\* Entering announcing_the_act / setting_the_scene / stating_a_beat, from the
\* test or from inside the with-block of an invocation in progress. When no
\* adapter raises, the func the last adapter yielded is yielded to the caller
\* and the with-block is entered. When adapter `fails` raises, the exception
\* leaves the for loop, which is before the try statement: nothing is
\* yielded, the with-block is not entered and no closure is resumed.
Vocalize(ch, fails) ==
    /\ invocation < MaxInvocations
    /\ invocation' = invocation + 1
    /\ calls' = calls \o wrap_all(adapters, invocation + 1, ch, Work, fails)
    /\ IF fails = 0
       THEN /\ outer' = IF channel = "" THEN outer ELSE Append(outer, Frame)
            /\ exits' = adapters
            /\ channel' = ch
            /\ current' = invocation + 1
            /\ mic_error' = "none"
            /\ yielded' = Append(yielded, [inv |-> invocation + 1,
                                           func |-> wrapped(adapters, Work)])
       ELSE /\ mic_error' = "AdapterError"
            /\ UNCHANGED <<exits, channel, current, outer, yielded>>
    /\ UNCHANGED adapters

announcing_the_act == \E fails \in Failing : Vocalize("act", fails)
setting_the_scene == \E fails \in Failing : Vocalize("scene", fails)
stating_a_beat == \E fails \in Failing : Vocalize("beat", fails)

\* whispering_an_aside calls adapter.aside(message) although Adapter.aside is
\* aside(func, line): the call raises TypeError before any adapter is wrapped.
\* With no adapter, `yield func` reads the unbound local `func`.
whispering_an_aside ==
    /\ invocation < MaxInvocations
    /\ invocation' = invocation + 1
    /\ mic_error' = IF adapters # <<>> THEN "TypeError" ELSE "UnboundLocalError"
    /\ UNCHANGED <<adapters, exits, calls, channel, current, outer, yielded>>

\* Leaving the with-block of a channel, the body having returned or raised:
\* the finally clause resumes every closure of exits.
\* Mutant of LeaveChannel: the closures of the enclosing invocation are
\* resumed too, and first, as if exits were shared between the invocations.
LeaveChannel_shared_exits(raised) ==
    /\ channel # ""
    /\ calls' = calls \o (IF outer = <<>> THEN <<>>
                          ELSE close_all(outer[Len(outer)].exits,
                                         outer[Len(outer)].inv,
                                         outer[Len(outer)].channel))
                      \o close_all(exits, current, channel)
    /\ exits' = <<>>
    /\ channel' = IF outer = <<>> THEN "" ELSE outer[Len(outer)].channel
    /\ current' = IF outer = <<>> THEN 0 ELSE outer[Len(outer)].inv
    /\ outer' = SubSeq(outer, 1, Len(outer) - 1)
    /\ mic_error' = IF raised THEN "WorkError" ELSE "none"
    /\ UNCHANGED <<adapters, invocation, yielded>>

\* Mutant of LeaveChannel: the closures of the invocation that finished just
\* before this one started are resumed once more.
LeaveChannel_stale_exits(raised) ==
    /\ channel # ""
    /\ calls' = calls \o close_all(exits, current, channel)
                      \o (IF current > 1
                             /\ \A i \in 1..Len(outer) : outer[i].inv # current - 1
                          THEN close_all(exits, current - 1, channel)
                          ELSE <<>>)
    /\ exits' = IF outer = <<>> THEN <<>> ELSE outer[Len(outer)].exits
    /\ channel' = IF outer = <<>> THEN "" ELSE outer[Len(outer)].channel
    /\ current' = IF outer = <<>> THEN 0 ELSE outer[Len(outer)].inv
    /\ outer' = SubSeq(outer, 1, Len(outer) - 1)
    /\ mic_error' = IF raised THEN "WorkError" ELSE "none"
    /\ UNCHANGED <<adapters, invocation, yielded>>

\* Leaving the with-block of a channel, the body having returned or raised:
\* the finally clause resumes every closure of exits, and the enclosing
\* invocation, if any, is in progress again.
LeaveChannel(raised) ==
    /\ channel # ""
    /\ calls' = calls \o close_all(exits, current, channel)
    /\ exits' = IF outer = <<>> THEN <<>> ELSE outer[Len(outer)].exits
    /\ channel' = IF outer = <<>> THEN "" ELSE outer[Len(outer)].channel
    /\ current' = IF outer = <<>> THEN 0 ELSE outer[Len(outer)].inv
    /\ outer' = SubSeq(outer, 1, Len(outer) - 1)
    /\ mic_error' = IF raised THEN "WorkError" ELSE "none"
    /\ UNCHANGED <<adapters, invocation, yielded>>

(***************************************************************************)
(* pacing.py : Narrator, OurHandler                                        *)
(*                                                                         *)
(* The operators below work on a record w holding the Narrator's fields,   *)
(* the records narrated by the handler so far and whether the call has     *)
(* raised.                                                                 *)
(***************************************************************************)
Self == [enabled |-> enabled, buffer |-> buffer, buffer_mode |-> buffer_mode,
         capacity |-> capacity, handled |-> handled, raised |-> FALSE]

\* Narrator.make_record. msg is the completed line `f"{indent}{line}"` that
\* Narrator.beat and Narrator.aside render when they are called: the
\* indentation of the level lvl at that time, then the line, which the
\* record's id stands for. level keeps lvl beside the rendered text.
make_record(msgtype, id, lvl) ==
    [msgtype |-> msgtype, id |-> id, level |-> lvl,
     msg |-> str(indent_enabled, lvl) \o <<id>>]

\* OurHandler.handle narrates BEAT and ASIDE and raises for any other msgtype.
Implemented(record) == record.msgtype \in {BEAT, ASIDE}

\* Mutant of OurHandler_handle: the line is indented anew, by the level at
\* the time of the delivery.
OurHandler_handle_rerenders(w, record) ==
    IF Implemented(record)
    THEN [w EXCEPT !.handled =
              Append(@, [record EXCEPT !.msg = str(indent_enabled, level) \o <<record.id>>])]
    ELSE [w EXCEPT !.raised = TRUE]

\* OurHandler.handle: OurHandler.beat and OurHandler.aside log record.msg as
\* it is.
OurHandler_handle(w, record) ==
    IF Implemented(record)
    THEN [w EXCEPT !.handled = Append(@, record)]
    ELSE [w EXCEPT !.raised = TRUE]

\* The calls OurHandler.beat and OurHandler.aside make on the report for the
\* records hs they narrate: `with allure.step(record.msg): pass` opens the
\* step of a record and closes it at once.
RECURSIVE allure_steps(_)
allure_steps(hs) ==
    IF hs = <<>> THEN <<>>
    ELSE <<[kind |-> "open", id |-> Head(hs).id],
           [kind |-> "close", id |-> Head(hs).id]>> \o allure_steps(Tail(hs))

\* Narrator.handle_buffer: the records go to the handler in buffer order; a
\* raise of the handler ends the loop.
RECURSIVE handle_buffer(_, _)
handle_buffer(w, buf) ==
    IF buf = <<>> \/ w.raised THEN w
    ELSE handle_buffer(OurHandler_handle(w, Head(buf)), Tail(buf))

\* Mutants of clear_buffer: one that leaves the buffer as it is, one that
\* delivers the entries it removes.
clear_buffer_keeps(w) == w
clear_buffer_delivers(w) == [w EXCEPT !.handled = @ \o w.buffer, !.buffer = <<>>]

\* Narrator.clear_buffer
clear_buffer(w) == [w EXCEPT !.buffer = <<>>]

\* Mutant of flush_buffer: the buffer is not cleared after the replay.
flush_buffer_keeps(w) == handle_buffer(w, w.buffer)

\* Narrator.flush_buffer
flush_buffer(w) ==
    LET w1 == handle_buffer(w, w.buffer)
    IN  IF w1.raised THEN w1 ELSE clear_buffer(w1)

\* Mutant of should_flush: the buffer is flushed only above the capacity.
should_flush_above(w) == Len(w.buffer) > w.capacity

\* Narrator.should_flush
should_flush(w) == Len(w.buffer) >= w.capacity

\* Mutant of handle: the record goes to the handler whatever the mode.
handle_unbuffered(w, record) ==
    IF w.enabled THEN OurHandler_handle(w, record) ELSE w

\* Mutant of handle: while records are buffered, a record issued inside a beat
\* of the buffered block is not kept.
handle_skips_nested(w, record) ==
    IF w.enabled
    THEN IF ~w.buffer_mode
         THEN OurHandler_handle(w, record)
         ELSE IF record.level > 1 THEN w
              ELSE LET w1 == [w EXCEPT !.buffer = Append(@, record)]
                   IN  IF should_flush(w1) THEN flush_buffer(w1) ELSE w1
    ELSE w

\* Mutant of handle: the record is appended to the buffer in either mode.
handle_always_buffers(w, record) ==
    IF w.enabled
    THEN LET w1 == [w EXCEPT !.buffer = Append(@, record)]
         IN  IF ~w.buffer_mode
             THEN OurHandler_handle(w1, record)
             ELSE IF should_flush(w1) THEN flush_buffer(w1) ELSE w1
    ELSE w

\* Mutant of handle: `enabled` is not looked at.
handle_ignores_enabled(w, record) ==
    IF ~w.buffer_mode
    THEN OurHandler_handle(w, record)
    ELSE LET w1 == [w EXCEPT !.buffer = Append(@, record)]
         IN  IF should_flush(w1) THEN flush_buffer(w1) ELSE w1

\* Narrator.handle
handle(w, record) ==
    IF w.enabled
    THEN IF ~w.buffer_mode
         THEN OurHandler_handle(w, record)
         ELSE LET w1 == [w EXCEPT !.buffer = Append(@, record)]
              IN  IF should_flush(w1) THEN flush_buffer(w1) ELSE w1
    ELSE w

\* Narrator._convey
convey(w, msgtype, id, lvl) == handle(w, make_record(msgtype, id, lvl))

\* The fields of the Narrator and the handler's output after a call.
Becomes(w) ==
    /\ enabled' = w.enabled
    /\ buffer' = w.buffer
    /\ buffer_mode' = w.buffer_mode
    /\ capacity' = w.capacity
    /\ handled' = w.handled

\* IndentManager.add_level / remove_level
add_level(lvl) == lvl + 1

\* Mutant of remove_level: the level is decreased without looking at it.
remove_level_unguarded(lvl) == lvl - 1

\* Mutant of remove_level: the first level is never removed.
remove_level_keeps_first(lvl) == IF lvl > 1 THEN lvl - 1 ELSE lvl

remove_level(lvl) == IF lvl > 0 THEN lvl - 1 ELSE lvl

\* The caller's last operation.
Called(name) == [name |-> name, n |-> Len(buffer)]

Top == scopes[Len(scopes)]
Pop == SubSeq(scopes, 1, Len(scopes) - 1)

\* Mutant of wrapper_ran: the function is not called while records are buffered.
wrapper_ran_deferred(w, id) ==
    IF w.raised \/ w.buffer_mode THEN ran ELSE Append(ran, id)

\* The decorated function of a beat is called once narrator.beat has been
\* entered: `with narrator.beat(completed_line): retval = func(...)`.
wrapper_ran(w, id) == IF w.raised THEN ran ELSE Append(ran, id)

\* The wrapper of @beat with settings.LOG_ACTIONS set, up to the call of the
\* function: narrator.beat conveys the BEAT record, then enters
\* indent.next_level().
BeatNarrated ==
    /\ LET w == convey(Self, BEAT, nextId, level)
       IN  /\ Becomes(w)
           /\ raising' = w.raised
           /\ level' = IF w.raised THEN level ELSE add_level(level)
           /\ scopes' = IF w.raised THEN scopes ELSE Append(scopes, "beat")
           /\ ran' = wrapper_ran(w, nextId)
    /\ nextId' = nextId + 1

\* The wrapper with settings.LOG_ACTIONS not set: `return func(*args,
\* **kwargs)`. No record is made of the call: it is entered in ran as 0.
BeatSilent ==
    /\ scopes' = Append(scopes, "func")
    /\ ran' = Append(ran, 0)
    /\ UNCHANGED <<enabled, buffer, buffer_mode, capacity, handled, level,
                   raising, nextId>>

\* Mutant of Beat: the wrapper does not look at settings.LOG_ACTIONS.
Beat_ignores_settings ==
    /\ ~raising
    /\ BeatNarrated
    /\ op' = Called("beat")

\* A call of a function decorated with @beat, up to the call of the function.
Beat ==
    /\ ~raising
    /\ IF LOG_ACTIONS THEN BeatNarrated ELSE BeatSilent
    /\ op' = Called("beat")

\* Mutant of derived_aside: the result is handed to the handler directly.
derived_aside_unbuffered(w, hasRetval, id, lvl) ==
    IF hasRetval THEN OurHandler_handle(w, make_record(ASIDE, id, lvl)) ELSE w

\* `if retval is not None: narrator.aside(f"=> {retval}")`
derived_aside(w, hasRetval, id, lvl) ==
    IF hasRetval THEN convey(w, ASIDE, id, lvl) ELSE w

\* The caller's last operation was the end of a beat whose function returned
\* retval (retval: it is not None).
Returned(hasRetval) ==
    [name |-> "beat.exit", n |-> Len(buffer), retval |-> hasRetval]

\* The end of a beat: the function has returned retval (hasRetval: it is not
\* None) or an exception is propagating. With LOG_ACTIONS set when the
\* wrapper was called, a result is narrated as an aside inside the beat and
\* next_level's finally clause removes the level.
BeatExit(hasRetval) ==
    /\ scopes # <<>> /\ Top \in {"beat", "func"}
    /\ hasRetval => ~raising
    /\ IF Top = "beat"
       THEN /\ LET w == derived_aside(Self, hasRetval, nextId, level)
               IN  /\ Becomes(w)
                   /\ raising' = (raising \/ w.raised)
            /\ nextId' = IF hasRetval THEN nextId + 1 ELSE nextId
            /\ level' = remove_level(level)
       ELSE UNCHANGED <<enabled, buffer, buffer_mode, capacity, handled,
                        level, raising, nextId>>
    /\ scopes' = Pop
    /\ op' = Returned(hasRetval)
    /\ UNCHANGED ran

\* Narrator.aside
Aside ==
    /\ ~raising
    /\ LET w == convey(Self, ASIDE, nextId, level)
       IN  /\ Becomes(w)
           /\ raising' = w.raised
    /\ nextId' = nextId + 1
    /\ op' = Called("aside")
    /\ UNCHANGED <<level, scopes, ran>>

\* The function aside of pacing.py: nothing happens unless LOG_ACTIONS is set.
pacing_aside ==
    IF LOG_ACTIONS THEN Aside
    ELSE /\ ~raising
         /\ op' = Called("aside")
         /\ UNCHANGED <<enabled, buffer, buffer_mode, capacity, handled, level,
                        scopes, raising, ran, nextId>>

\* Entering `with no_logging():`
no_logging ==
    /\ ~raising
    /\ LOG_ACTIONS' = FALSE
    /\ scopes' = Append(scopes, "no_logging")
    /\ op' = Called("no_logging")
    /\ UNCHANGED <<enabled, buffer, buffer_mode, capacity, handled, level,
                   raising, ran, nextId>>

\* Leaving `with no_logging():`, the body having returned or raised.
no_logging_exit ==
    /\ scopes # <<>> /\ Top = "no_logging"
    /\ LOG_ACTIONS' = TRUE
    /\ scopes' = Pop
    /\ op' = Called("no_logging.exit")
    /\ UNCHANGED <<enabled, buffer, buffer_mode, capacity, handled, level,
                   raising, ran, nextId>>

\* Narrator.context_convey with a message type the handler does not
\* implement (SCENE, ACT); the with-block it opens has nothing to undo.
context_convey(msgtype) ==
    /\ ~raising
    /\ LET w == convey(Self, msgtype, nextId, 0)
       IN  /\ Becomes(w)
           /\ raising' = w.raised
    /\ nextId' = nextId + 1
    /\ op' = Called("context_convey")
    /\ UNCHANGED <<level, scopes, ran>>

\* Entering `with narrator.records_buffered():`
records_buffered ==
    /\ ~raising
    /\ buffer_mode' = TRUE
    /\ scopes' = Append(scopes, "kink")
    /\ op' = Called("records_buffered")
    /\ UNCHANGED <<enabled, buffer, capacity, handled, level, raising, ran,
                   nextId>>

\* Mutant of records_buffered_exit: the scope is left without a flush.
records_buffered_exit_without_flush ==
    /\ scopes # <<>> /\ Top = "kink"
    /\ Becomes([Self EXCEPT !.buffer_mode = FALSE])
    /\ scopes' = Pop
    /\ op' = Called("records_buffered.exit")
    /\ UNCHANGED <<level, raising, ran, nextId>>

\* Leaving records_buffered, normally or by an exception: the finally clause
\* runs flush_buffer and then sets buffer_mode to False; a raise of
\* flush_buffer skips the assignment.
records_buffered_exit ==
    /\ scopes # <<>> /\ Top = "kink"
    /\ LET w == flush_buffer(Self)
       IN  /\ Becomes(IF w.raised THEN w ELSE [w EXCEPT !.buffer_mode = FALSE])
           /\ raising' = (raising \/ w.raised)
    /\ scopes' = Pop
    /\ op' = Called("records_buffered.exit")
    /\ UNCHANGED <<level, ran, nextId>>

\* A call of narrator.flush_buffer() by the caller.
Flush ==
    /\ ~raising
    /\ LET w == flush_buffer(Self)
       IN  /\ Becomes(w)
           /\ raising' = w.raised
    /\ op' = Called("flush_buffer")
    /\ UNCHANGED <<level, scopes, ran, nextId>>

\* A call of narrator.clear_buffer() by the caller.
Clear ==
    /\ ~raising
    /\ Becomes(clear_buffer(Self))
    /\ op' = Called("clear_buffer")
    /\ UNCHANGED <<level, scopes, raising, ran, nextId>>

\* Narrator.set_capacity
Capacities == {2, DefaultCapacity}
set_capacity(c) ==
    /\ ~raising
    /\ c # capacity
    /\ capacity' = c
    /\ op' = Called("set_capacity")
    /\ UNCHANGED <<enabled, buffer, buffer_mode, handled, level, scopes, raising,
                   ran, nextId>>

\* Narrator.disable_output / enable_output
disable_output ==
    /\ ~raising
    /\ enabled
    /\ enabled' = FALSE
    /\ op' = Called("disable_output")
    /\ UNCHANGED <<buffer, buffer_mode, capacity, handled, level, scopes, raising,
                   ran, nextId>>

enable_output ==
    /\ ~raising
    /\ ~enabled
    /\ enabled' = TRUE
    /\ op' = Called("enable_output")
    /\ UNCHANGED <<buffer, buffer_mode, capacity, handled, level, scopes, raising,
                   ran, nextId>>

\* The body of a with-block raises.
Raise ==
    /\ ~raising
    /\ scopes # <<>>
    /\ raising' = TRUE
    /\ op' = Called("raise")
    /\ UNCHANGED <<enabled, buffer, buffer_mode, capacity, handled, level, scopes,
                   ran, nextId>>

\* The caller catches the propagating exception.
Catch ==
    /\ raising
    /\ raising' = FALSE
    /\ op' = Called("catch")
    /\ UNCHANGED <<enabled, buffer, buffer_mode, capacity, handled, level, scopes,
                   ran, nextId>>

NextPacing ==
    /\ \/ Beat
       \/ \E hasRetval \in BOOLEAN : BeatExit(hasRetval)
       \/ Aside
       \/ \E msgtype \in {SCENE} : context_convey(msgtype)
       \/ records_buffered
       \/ records_buffered_exit
       \/ Flush
       \/ Clear
       \/ \E c \in Capacities : set_capacity(c)
       \/ disable_output
       \/ enable_output
       \/ Raise
       \/ Catch
    /\ nextId' <= MaxRecords + 1
    /\ Len(handled') <= MaxHandled
    /\ Len(scopes') <= MaxScopes
    /\ UNCHANGED <<micVars, loopVars, settingsVars, stdoutVars, allureVars, loggerVars>>

\* Narrator(adapters): the adapter list is given at construction.
InitMic(n) ==
    /\ adapters = [i \in 1..n |-> i]
    /\ exits = <<>>
    /\ calls = <<>>
    /\ invocation = 0
    /\ channel = ""
    /\ current = 0
    /\ outer = <<>>
    /\ mic_error = "none"
    /\ yielded = <<>>

\* Narrator(capacity), OurHandler(), IndentManager()
InitPacing(c) ==
    /\ enabled = TRUE
    /\ buffer = <<>>
    /\ buffer_mode = FALSE
    /\ capacity = c
    /\ handled = <<>>
    /\ level = 0
    /\ scopes = <<>>
    /\ raising = FALSE
    /\ ran = <<>>
    /\ nextId = 1
    /\ op = [name |-> "init", n |-> 0]

InitLoop ==
    /\ loop_pc = "idle"
    /\ loop = 0
    /\ limit = 0
    /\ K = 0
    /\ k = 0

\* settings.LOG_ACTIONS is True unless a no_logging block is open.
InitSettings == LOG_ACTIONS = TRUE

\* IndentManager.__init__ reads settings.INDENT_LOGS; nothing is logged yet.
InitStdOut(indent_logs) ==
    /\ indent_enabled = indent_logs
    /\ log = <<>>
    /\ wrappers = [ch \in {"act", "scene", "beat", "aside"} |-> 0]

InitAllure == tags = <<>>

\* ScreenPyLogger.__init__(name, level, capacity, flush_level)
InitLogger(c, fl) ==
    /\ logger_buffer = <<>>
    /\ logger_buffer_mode = FALSE
    /\ logger_capacity = c
    /\ flush_level = fl
    /\ emitted = <<>>
    /\ logger_blocks = 0
    /\ logger_next = 1
    /\ logger_op = [name |-> "init", levelno |-> 0]

\* logger = create_logger("screenpy"): capacity and flush_level keep their
\* defaults.
create_logger == InitLogger(DefaultCapacity, ERROR)

InitRest == InitSettings /\ InitStdOut(TRUE) /\ InitAllure /\ create_logger

Init == InitMic(0) /\ InitPacing(DefaultCapacity) /\ InitLoop /\ InitRest

InitAdapters ==
    /\ \E n \in 0..MaxAdapters : InitMic(n)
    /\ InitPacing(DefaultCapacity)
    /\ InitLoop
    /\ InitRest

NextMic ==
    /\ \/ announcing_the_act
       \/ setting_the_scene
       \/ stating_a_beat
       \/ whispering_an_aside
       \/ \E raised \in BOOLEAN : LeaveChannel(raised)
    /\ UNCHANGED <<pacingVars, loopVars, settingsVars, stdoutVars, allureVars, loggerVars>>

SpecMic == InitAdapters /\ [][NextMic]_vars

Spec == Init /\ [][NextPacing]_vars

\* The functions of pacing.py called by a test: decorated functions, aside,
\* no_logging blocks and buffered blocks.
NextNoLogging ==
    /\ \/ Beat /\ UNCHANGED LOG_ACTIONS
       \/ \E hasRetval \in BOOLEAN : BeatExit(hasRetval) /\ UNCHANGED LOG_ACTIONS
       \/ pacing_aside /\ UNCHANGED LOG_ACTIONS
       \/ records_buffered /\ UNCHANGED LOG_ACTIONS
       \/ records_buffered_exit /\ UNCHANGED LOG_ACTIONS
       \/ Raise /\ UNCHANGED LOG_ACTIONS
       \/ Catch /\ UNCHANGED LOG_ACTIONS
       \/ no_logging
       \/ no_logging_exit
    /\ nextId' <= MaxRecords + 1
    /\ Len(ran') <= MaxRecords
    /\ Len(scopes') <= MaxScopes + 1
    /\ UNCHANGED <<micVars, loopVars, stdoutVars, allureVars, loggerVars>>

SpecNoLogging == Init /\ [][NextNoLogging]_vars

(***************************************************************************)
(* The loop of TestBeat.test_log_buffering and test_log_buffered:          *)
(*     with records_buffered():                                            *)
(*         while True:                                                     *)
(*             clear_buffer(); loop += 1                                   *)
(*             <K narrations>                                              *)
(*             if loop >= limit: break                                     *)
(*     flush_buffer()                                                      *)
(* run against a Narrator(capacity).                                       *)
(***************************************************************************)
LoopKink ==
    /\ loop_pc = "start"
    /\ records_buffered
    /\ loop_pc' = "clear"
    /\ UNCHANGED <<loop, limit, K, k>>

LoopClear ==
    /\ loop_pc = "clear"
    /\ Clear
    /\ loop' = loop + 1
    /\ k' = 0
    /\ loop_pc' = "narrate"
    /\ UNCHANGED <<limit, K>>

LoopAside ==
    /\ loop_pc = "narrate"
    /\ k < K
    /\ Aside
    /\ k' = k + 1
    /\ UNCHANGED <<loop_pc, loop, limit, K>>

LoopBeat ==
    /\ loop_pc = "narrate"
    /\ k < K
    /\ Beat
    /\ k' = k + 1
    /\ loop_pc' = "beat"
    /\ UNCHANGED <<loop, limit, K>>

LoopBeatExit ==
    /\ loop_pc = "beat"
    /\ BeatExit(FALSE)
    /\ loop_pc' = "narrate"
    /\ UNCHANGED <<loop, limit, K, k>>

LoopCheck ==
    /\ loop_pc = "narrate"
    /\ k = K
    /\ loop_pc' = IF loop >= limit THEN "exit" ELSE "clear"
    /\ UNCHANGED <<pacingVars, loop, limit, K, k>>

LoopExit ==
    /\ loop_pc = "exit"
    /\ records_buffered_exit
    /\ loop_pc' = "flush"
    /\ UNCHANGED <<loop, limit, K, k>>

LoopFlush ==
    /\ loop_pc = "flush"
    /\ Flush
    /\ loop_pc' = "done"
    /\ UNCHANGED <<loop, limit, K, k>>

InitLoopRun ==
    /\ InitMic(0)
    /\ InitRest
    /\ \E c \in Capacities : InitPacing(c)
    /\ loop_pc = "start"
    /\ loop = 0
    /\ limit \in 1..MaxIter
    /\ K \in 0..MaxK
    /\ k = 0

NextLoop ==
    /\ \/ LoopKink
       \/ LoopClear
       \/ LoopAside
       \/ LoopBeat
       \/ LoopBeatExit
       \/ LoopCheck
       \/ LoopExit
       \/ LoopFlush
    /\ UNCHANGED <<micVars, settingsVars, stdoutVars, allureVars, loggerVars>>

SpecLoop == InitLoopRun /\ [][NextLoop]_vars

(***************************************************************************)
(* TestBeat.test_log_buffered:                                             *)
(*     @beat("1")                                                          *)
(*     def use(self):                                                      *)
(*         with records_buffered():                                        *)
(*             while True:                                                 *)
(*                 clear_buffer(); loop += 1                               *)
(*                 aside("2 loop {loop}")                                  *)
(*                 self.prop2.use()      # @beat("3"): aside("4")          *)
(*                 if loop >= limit: break                                 *)
(* run against a Narrator(capacity); k counts the narrations issued since  *)
(* the last clear.                                                         *)
(***************************************************************************)
BufferedBeat1 ==
    /\ loop_pc = "start"
    /\ Beat
    /\ loop_pc' = "kink"
    /\ UNCHANGED <<loop, limit, K, k>>

BufferedKink ==
    /\ loop_pc = "kink"
    /\ records_buffered
    /\ loop_pc' = "clear"
    /\ UNCHANGED <<loop, limit, K, k>>

BufferedClear ==
    /\ loop_pc = "clear"
    /\ Clear
    /\ loop' = loop + 1
    /\ k' = 0
    /\ loop_pc' = "aside2"
    /\ UNCHANGED <<limit, K>>

BufferedAside2 ==
    /\ loop_pc = "aside2"
    /\ pacing_aside
    /\ k' = k + 1
    /\ loop_pc' = "beat3"
    /\ UNCHANGED <<loop, limit, K>>

BufferedBeat3 ==
    /\ loop_pc = "beat3"
    /\ Beat
    /\ k' = k + 1
    /\ loop_pc' = "aside4"
    /\ UNCHANGED <<loop, limit, K>>

BufferedAside4 ==
    /\ loop_pc = "aside4"
    /\ pacing_aside
    /\ k' = k + 1
    /\ loop_pc' = "exit3"
    /\ UNCHANGED <<loop, limit, K>>

BufferedBeat3Exit ==
    /\ loop_pc = "exit3"
    /\ BeatExit(FALSE)
    /\ loop_pc' = IF loop >= limit THEN "unkink" ELSE "clear"
    /\ UNCHANGED <<loop, limit, K, k>>

BufferedUnkink ==
    /\ loop_pc = "unkink"
    /\ records_buffered_exit
    /\ loop_pc' = "exit1"
    /\ UNCHANGED <<loop, limit, K, k>>

BufferedBeat1Exit ==
    /\ loop_pc = "exit1"
    /\ BeatExit(FALSE)
    /\ loop_pc' = "done"
    /\ UNCHANGED <<loop, limit, K, k>>

InitBuffered ==
    /\ InitMic(0)
    /\ InitSettings
    /\ \E indent_logs \in BOOLEAN : InitStdOut(indent_logs)
    /\ InitAllure
    /\ create_logger
    /\ \E c \in Capacities : InitPacing(c)
    /\ loop_pc = "start"
    /\ loop = 0
    /\ limit \in 1..MaxIter
    /\ K = 3
    /\ k = 0

NextBuffered ==
    /\ \/ BufferedBeat1
       \/ BufferedKink
       \/ BufferedClear
       \/ BufferedAside2
       \/ BufferedBeat3
       \/ BufferedAside4
       \/ BufferedBeat3Exit
       \/ BufferedUnkink
       \/ BufferedBeat1Exit
    /\ UNCHANGED <<micVars, settingsVars, stdoutVars, allureVars, loggerVars>>

SpecBuffered == InitBuffered /\ [][NextBuffered]_vars

(***************************************************************************)
(* narration/adapters/stdout_adapter.py : IndentManager, StdOutAdapter     *)
(*                                                                         *)
(* A string is a sequence of characters; the line an adapter is given is   *)
(* one element, its number among the lines logged.                         *)
(***************************************************************************)

\* `self.logger.info(f"{indent}{line}")`
logger_info(line) == Append(log, str(indent_enabled, level) \o <<line>>)

\* The caller's last operation on the stdout adapter or its IndentManager.
IndentCalled(name) == [name |-> name, n |-> level]

narratorVars == <<enabled, buffer, buffer_mode, capacity, handled, ran, nextId>>

\* indent.add_level() called directly.
indent_add_level ==
    /\ ~raising
    /\ level' = add_level(level)
    /\ op' = IndentCalled("add_level")
    /\ UNCHANGED <<scopes, raising, log>>

\* indent.remove_level() called directly.
indent_remove_level ==
    /\ ~raising
    /\ level' = remove_level(level)
    /\ op' = IndentCalled("remove_level")
    /\ UNCHANGED <<scopes, raising, log>>

\* Entering `with indent.next_level():`
next_level ==
    /\ ~raising
    /\ level' = add_level(level)
    /\ scopes' = Append(scopes, "next_level")
    /\ op' = IndentCalled("next_level")
    /\ UNCHANGED <<raising, log>>

\* Leaving `with indent.next_level():`, the body having returned or raised.
next_level_exit ==
    /\ scopes # <<>> /\ Top = "next_level"
    /\ level' = remove_level(level)
    /\ scopes' = Pop
    /\ op' = IndentCalled("next_level.exit")
    /\ UNCHANGED <<raising, log>>

\* The func_wrapper of StdOutAdapter.beat is called: it logs the line, then
\* calls func inside `with indent.next_level():`.
StdOutAdapter_beat ==
    /\ ~raising
    /\ log' = logger_info(Len(log) + 1)
    /\ level' = add_level(level)
    /\ scopes' = Append(scopes, "beat")
    /\ op' = IndentCalled("beat")
    /\ UNCHANGED raising

\* func has returned or raised inside the func_wrapper of StdOutAdapter.beat.
StdOutAdapter_beat_exit ==
    /\ scopes # <<>> /\ Top = "beat"
    /\ level' = remove_level(level)
    /\ scopes' = Pop
    /\ op' = IndentCalled("beat.exit")
    /\ UNCHANGED <<raising, log>>

\* The func_wrapper of StdOutAdapter.aside is called: it logs the line.
StdOutAdapter_aside ==
    /\ ~raising
    /\ log' = logger_info(Len(log) + 1)
    /\ op' = IndentCalled("aside")
    /\ UNCHANGED <<level, scopes, raising>>

NextStdOut ==
    /\ \/ indent_add_level
       \/ indent_remove_level
       \/ next_level
       \/ next_level_exit
       \/ StdOutAdapter_beat
       \/ StdOutAdapter_beat_exit
       \/ StdOutAdapter_aside
       \/ Raise /\ UNCHANGED log
       \/ Catch /\ UNCHANGED log
    /\ level' <= MaxNest
    /\ Len(scopes') <= MaxNest
    /\ Len(log') <= MaxLines
    /\ UNCHANGED <<narratorVars, indent_enabled, wrappers>>
    /\ UNCHANGED <<micVars, loopVars, settingsVars, allureVars, loggerVars>>

InitStdOutRun ==
    /\ InitMic(0)
    /\ InitPacing(DefaultCapacity)
    /\ InitLoop
    /\ InitSettings
    /\ InitAllure
    /\ create_logger
    /\ \E indent_logs \in BOOLEAN : InitStdOut(indent_logs)

SpecStdOut == InitStdOutRun /\ [][NextStdOut]_vars

(***************************************************************************)
(* StdOutAdapter.act / scene / beat / aside as the Narrator and the tests  *)
(* use them: the generator is started and yields a func_wrapper; the       *)
(* func_wrapper is called later, by the caller or by the work of another   *)
(* func_wrapper; resuming the generator after its yield does nothing.      *)
(* In these runs an entry of scopes is a func_wrapper being run: its       *)
(* channel and the place in log of the line it logged.                     *)
(***************************************************************************)
Channels == {"act", "scene", "beat", "aside"}

\* Mutant of rendering: the line of an aside is logged without indentation.
rendering_flat_aside(ch, line) ==
    CASE ch = "act" -> <<"ACT", "upper", line>>
      [] ch = "scene" -> <<"Scene:", "title", line>>
      [] ch = "beat" -> str(indent_enabled, level) \o <<line>>
      [] OTHER -> <<line>>

\* The text a func_wrapper logs: f"ACT {line.upper()}",
\* f"Scene: {line.title()}", f"{indent}{line}" for a beat and an aside.
rendering(ch, line) ==
    CASE ch = "act" -> <<"ACT", "upper", line>>
      [] ch = "scene" -> <<"Scene:", "title", line>>
      [] OTHER -> str(indent_enabled, level) \o <<line>>

\* Mutant of StdOutAdapter_wrap: the generator of a beat enters the next
\* level before it yields.
StdOutAdapter_wrap_enters(ch) ==
    /\ ~raising
    /\ wrappers' = [wrappers EXCEPT ![ch] = @ + 1]
    /\ level' = IF ch = "beat" THEN add_level(level) ELSE level
    /\ op' = IndentCalled("wrap")
    /\ UNCHANGED <<scopes, raising, log>>

\* `closure = adapter.beat(func, line); next(closure)` (likewise act, scene,
\* aside): func_wrapper is defined and yielded; nothing is logged and indent
\* is not touched.
StdOutAdapter_wrap(ch) ==
    /\ ~raising
    /\ wrappers' = [wrappers EXCEPT ![ch] = @ + 1]
    /\ op' = IndentCalled("wrap")
    /\ UNCHANGED <<level, scopes, raising, log>>

\* A func_wrapper of channel ch is called: it logs its line, then calls func,
\* for a beat inside `with indent.next_level():`.
func_wrapper(ch) ==
    /\ ~raising
    /\ wrappers[ch] > 0
    /\ wrappers' = [wrappers EXCEPT ![ch] = @ - 1]
    /\ log' = Append(log, rendering(ch, Len(log) + 1))
    /\ level' = IF ch = "beat" THEN add_level(level) ELSE level
    /\ scopes' = Append(scopes, [channel |-> ch, line |-> Len(log) + 1])
    /\ op' = IndentCalled("call")
    /\ UNCHANGED raising

\* What a call of func may return.
Results == {None, "value"}

\* Mutant of func_wrapper_result: the func_wrapper returns nothing.
func_wrapper_result_none(func_result) == None

\* `return func(*args, **kwargs)`: what the func_wrapper returns when func
\* returned func_result.
func_wrapper_result(func_result) == func_result

\* The func of the func_wrapper being run has returned func_result, or has
\* raised, or an exception is propagating through it (then func_result is
\* None); for a beat the finally clause of next_level removes the level.
func_wrapper_exit(raised, func_result) ==
    /\ scopes # <<>>
    /\ raised => ~raising
    /\ (raised \/ raising) => func_result = None
    /\ level' = IF Top.channel = "beat" THEN remove_level(level) ELSE level
    /\ scopes' = Pop
    /\ raising' = (raising \/ raised)
    /\ op' = [name |-> "return", n |-> level, func_result |-> func_result,
              result |-> IF raising \/ raised THEN None
                         ELSE func_wrapper_result(func_result)]
    /\ UNCHANGED <<log, wrappers>>

NextConsole ==
    /\ \/ \E ch \in Channels : StdOutAdapter_wrap(ch)
       \/ \E ch \in Channels : func_wrapper(ch)
       \/ \E raised \in BOOLEAN, func_result \in Results :
              func_wrapper_exit(raised, func_result)
       \/ Catch /\ UNCHANGED <<log, wrappers>>
    /\ wrappers'["act"] + wrappers'["scene"] + wrappers'["beat"]
           + wrappers'["aside"] <= MaxWrapped
    /\ Len(scopes') <= MaxNest
    /\ Len(log') <= MaxLines
    /\ UNCHANGED <<narratorVars, indent_enabled>>
    /\ UNCHANGED <<micVars, loopVars, settingsVars, allureVars, loggerVars>>

SpecConsole == InitStdOutRun /\ [][NextConsole]_vars

(***************************************************************************)
(* narration/adapters/allure_adapter.py : AllureAdapter.act, scene         *)
(***************************************************************************)

\* AllureAdapter.GRAVITAS: the allure.severity_level of each gravitas.
GRAVITAS ==
    (None :> "NORMAL") @@ (AIRY :> "TRIVIAL") @@ (LIGHT :> "MINOR") @@
    (NORMAL :> "NORMAL") @@ (HEAVY :> "CRITICAL") @@ (EXTREME :> "BLOCKER")

\* Python's truth value of a gravitas: None is false, a gravitas name true.
Truthy(gravitas) == gravitas # None

\* The severity decorations of `if gravitas: func =
\* allure.severity(self.GRAVITAS[gravitas])(func)`, in order.
severity(gravitas) == IF Truthy(gravitas) THEN <<GRAVITAS[gravitas]>> ELSE <<>>

\* AllureAdapter.act(func, line, gravitas): func is decorated with
\* allure.epic(line), then with the severity.
AllureAdapter_act(gravitas) ==
    tags' = Append(tags, [channel |-> "act", label |-> "epic",
                          gravitas |-> gravitas,
                          severity |-> severity(gravitas)])

\* AllureAdapter.scene(func, line, gravitas): allure.feature(line), then the
\* severity.
AllureAdapter_scene(gravitas) ==
    tags' = Append(tags, [channel |-> "scene", label |-> "feature",
                          gravitas |-> gravitas,
                          severity |-> severity(gravitas)])

NextAllure ==
    /\ \/ \E gravitas \in DOMAIN GRAVITAS : AllureAdapter_act(gravitas)
       \/ \E gravitas \in DOMAIN GRAVITAS : AllureAdapter_scene(gravitas)
    /\ Len(tags') <= MaxTagged
    /\ UNCHANGED <<micVars, pacingVars, loopVars, settingsVars, stdoutVars,
                 loggerVars>>

SpecAllure == Init /\ [][NextAllure]_vars

(***************************************************************************)
(* pacing.py : ScreenPyLogger.                                             *)
(***************************************************************************)
Levels == {INFO, ERROR}

\* The logger as a record, and the state a logger value stands for.
Logger ==
    [buffer |-> logger_buffer, buffer_mode |-> logger_buffer_mode,
     capacity |-> logger_capacity, flush_level |-> flush_level,
     emitted |-> emitted]

LoggerBecomes(lg) ==
    /\ logger_buffer' = lg.buffer
    /\ logger_buffer_mode' = lg.buffer_mode
    /\ logger_capacity' = lg.capacity
    /\ flush_level' = lg.flush_level
    /\ emitted' = lg.emitted

\* super().handle(record): logging.Logger.handle gives the record to the
\* handlers (the logger is not disabled and has no filter).
Logger_handle(lg, record) == [lg EXCEPT !.emitted = Append(@, record)]

\* ScreenPyLogger.clear_buffer
ScreenPyLogger_clear_buffer(lg) == [lg EXCEPT !.buffer = <<>>]

\* `for record in self.buffer: super().handle(record)`, from record i on.
RECURSIVE HandleFrom(_, _)
HandleFrom(lg, i) ==
    IF i > Len(lg.buffer) THEN lg
    ELSE HandleFrom(Logger_handle(lg, lg.buffer[i]), i + 1)

\* ScreenPyLogger.flush_buffer
ScreenPyLogger_flush_buffer(lg) == ScreenPyLogger_clear_buffer(HandleFrom(lg, 1))

ScreenPyLogger_should_flush_when_full(lg, record) ==
    Len(lg.buffer) >= lg.capacity

\* ScreenPyLogger.should_flush
ScreenPyLogger_should_flush(lg, record) ==
    \/ Len(lg.buffer) >= lg.capacity
    \/ record.levelno >= lg.flush_level

\* ScreenPyLogger.handle
ScreenPyLogger_handle(lg, record) ==
    IF ~lg.buffer_mode THEN Logger_handle(lg, record)
    ELSE LET appended == [lg EXCEPT !.buffer = Append(@, record)]
         IN  IF ScreenPyLogger_should_flush(appended, record)
             THEN ScreenPyLogger_flush_buffer(appended)
             ELSE appended

LoggerCalled(name, levelno) ==
    logger_op' = [name |-> name, levelno |-> levelno]

\* logger.log(levelno, msg): logging.Logger makes a LogRecord and hands it to
\* handle.
logger_log(levelno) ==
    /\ LoggerBecomes(ScreenPyLogger_handle(Logger,
                         [id |-> logger_next, levelno |-> levelno]))
    /\ logger_next' = logger_next + 1
    /\ LoggerCalled("handle", levelno)
    /\ UNCHANGED logger_blocks

\* logger.flush_buffer()
logger_flush_buffer ==
    /\ LoggerBecomes(ScreenPyLogger_flush_buffer(Logger))
    /\ LoggerCalled("flush_buffer", 0)
    /\ UNCHANGED <<logger_blocks, logger_next>>

\* logger.clear_buffer()
logger_clear_buffer ==
    /\ LoggerBecomes(ScreenPyLogger_clear_buffer(Logger))
    /\ LoggerCalled("clear_buffer", 0)
    /\ UNCHANGED <<logger_blocks, logger_next>>

\* logger.set_capacity(c)
logger_set_capacity(c) ==
    /\ LoggerBecomes([Logger EXCEPT !.capacity = c])
    /\ LoggerCalled("set_capacity", 0)
    /\ UNCHANGED <<logger_blocks, logger_next>>

\* `with logger.records_buffered():` is entered.
logger_records_buffered ==
    /\ LoggerBecomes([Logger EXCEPT !.buffer_mode = TRUE])
    /\ logger_blocks' = logger_blocks + 1
    /\ LoggerCalled("records_buffered", 0)
    /\ UNCHANGED logger_next

\* The block is left: `finally: self.flush_buffer(); self.buffer_mode = False`.
logger_records_buffered_exit ==
    /\ logger_blocks > 0
    /\ LoggerBecomes([ScreenPyLogger_flush_buffer(Logger)
                          EXCEPT !.buffer_mode = FALSE])
    /\ logger_blocks' = logger_blocks - 1
    /\ LoggerCalled("records_buffered.exit", 0)
    /\ UNCHANGED logger_next

NextLogger ==
    /\ \/ \E levelno \in Levels : logger_log(levelno)
       \/ logger_flush_buffer
       \/ logger_clear_buffer
       \/ \E c \in Capacities : logger_set_capacity(c)
       \/ logger_records_buffered
       \/ logger_records_buffered_exit
    /\ logger_next' <= MaxRecords + 1
    /\ logger_blocks' <= MaxScopes
    /\ UNCHANGED <<micVars, pacingVars, loopVars, settingsVars, stdoutVars,
                   allureVars>>

InitLoggerRun ==
    /\ InitMic(0)
    /\ InitPacing(DefaultCapacity)
    /\ InitLoop
    /\ InitSettings
    /\ InitStdOut(TRUE)
    /\ InitAllure
    /\ \E c \in Capacities, fl \in Levels : InitLogger(c, fl)

SpecLogger == InitLoggerRun /\ [][NextLogger]_vars

(***************************************************************************)
(* Claims about the microphone.                                            *)
(***************************************************************************)
Wraps(inv) == SelectSeq(calls, LAMBDA c : c.kind = "wrap" /\ c.inv = inv)
Closes(inv) == SelectSeq(calls, LAMBDA c : c.kind = "close" /\ c.inv = inv)
AdaptersOf(cs) == [i \in 1..Len(cs) |-> cs[i].adapter]
Finished(inv) ==
    /\ inv \in 1..invocation
    /\ inv # current
    /\ \A i \in 1..Len(outer) : outer[i].inv # inv

\* C1: for every finished channel invocation, the adapters' scopes were
\* closed in exactly the reverse of the order in which they were wrapped.
C1_ReverseClose ==
    \A inv \in 1..invocation :
        Finished(inv) =>
            AdaptersOf(Closes(inv)) = Reverse(AdaptersOf(Wraps(inv)))

\* C2: every finished channel invocation made exactly N wrap calls and
\* exactly N close calls, N the length of the adapter list, whether the
\* wrapped work returned or raised.
C2_NWrapsNCloses ==
    \A inv \in 1..invocation :
        Finished(inv) =>
            /\ Len(Wraps(inv)) = Len(adapters)
            /\ Len(Closes(inv)) = Len(adapters)

\* The places in calls of the wrap or close calls of an invocation.
Pos(kind, inv) ==
    {p \in 1..Len(calls) : calls[p].kind = kind /\ calls[p].inv = inv}

\* Invocation j was made inside the with-block of invocation i: an adapter
\* was wrapped for j before any scope of i was closed.
Nested(i, j) ==
    /\ i < j
    /\ \E p \in Pos("wrap", j) : \A q \in Pos("close", i) : p < q

Ids(s) == [i \in 1..Len(s) |-> s[i].id]
IsPrefix(s, t) == Len(s) <= Len(t) /\ SubSeq(t, 1, Len(s)) = s
\* The step made a NarrationRecord.
Narrated == nextId' = nextId + 1
\* The records of the loop's last iteration: each iteration makes K records.
LastIteration == [i \in 1..K |-> (limit - 1) * K + i]

\* C3 (as stated): in the loop run, for any K, every narration that reaches
\* the handler, at any point of the run, was recorded after the last clear.
C3_OnlyLastIteration ==
    \A i \in 1..Len(handled) : handled[i].id > (limit - 1) * K

\* C3 (amended): when each iteration records fewer narrations than the
\* buffer's capacity, only the narrations recorded after the last clear are
\* ever delivered, and the run ends with exactly those delivered, in order.
C3_OnlyLastIterationBelowCapacity ==
    K < capacity =>
        /\ \A i \in 1..Len(handled) : handled[i].id > (limit - 1) * K
        /\ loop_pc = "done" => Ids(handled) = LastIteration

C3_Witness ==
    /\ loop_pc = "done"
    /\ limit >= 2
    /\ K >= 2
    /\ K < capacity
    /\ Ids(handled) = LastIteration

\* C4 (as stated): while Kinked, a narration is appended at the end of the
\* buffer and delivered to no handler at that time, for any number of
\* narrations.
C4_BufferedNotDelivered ==
    [][(buffer_mode /\ Narrated) =>
          /\ handled' = handled
          /\ Len(buffer') = Len(buffer) + 1
          /\ IsPrefix(buffer, buffer')
          /\ buffer'[Len(buffer')].id = nextId]_vars

\* C4 (amended): while Kinked with output enabled, a narration that leaves
\* the buffer below its capacity is appended at the end of the buffer and is
\* delivered to no handler at that time.
C4_BufferedNotDeliveredBelowCapacity ==
    [][(buffer_mode /\ enabled /\ Narrated /\ Len(buffer) + 1 < capacity) =>
          /\ handled' = handled
          /\ Len(buffer') = Len(buffer) + 1
          /\ IsPrefix(buffer, buffer')
          /\ buffer'[Len(buffer')].id = nextId]_vars

C4_Witness ==
    /\ buffer_mode
    /\ enabled
    /\ op.name = "aside"
    /\ op.n = 1
    /\ Len(buffer) = 2
    /\ handled = <<>>

\* C5 (as stated): the work of a buffered Beat has not run while its entry
\* waits in the buffer; it runs only when flush replays the entry.
C5_BufferedWorkNotRun ==
    \A i \in 1..Len(buffer) :
        buffer[i].msgtype = BEAT => buffer[i].id \notin Range(ran)

\* C5 (amended): invoking a Beat runs the wrapped work at once and exactly
\* once, while Kinked as while Flowing; only the narration is buffered, and
\* no other operation (flush, clear, leaving the kinked scope) runs a work.
C5_WorkRunsAtInvocation ==
    [][/\ (op'.name = "beat" /\ ~raising') => ran' = Append(ran, nextId)
       /\ (op'.name # "beat") => ran' = ran
       /\ \A i, j \in 1..Len(ran') : ran'[i] = ran'[j] => i = j]_vars

C5_Witness ==
    /\ buffer_mode
    /\ op.name = "beat"
    /\ buffer # <<>>
    /\ buffer[Len(buffer)].msgtype = BEAT
    /\ buffer[Len(buffer)].id \in Range(ran)
    /\ handled = <<>>

\* C6: clear_buffer discards every buffered entry without delivering it: the
\* buffer is empty afterwards, the handler was not called, the mode is
\* unchanged, and whatever a later step delivers was in the buffer when that
\* step began or is the narration of that step, so that a discarded entry is
\* delivered by no later flush or unkink. With output enabled, a beat or an
\* aside narrated while Flowing (before or after a kinked scope) is delivered
\* at once.
C6_ClearDiscards ==
    [][/\ (op'.name = "clear_buffer") =>
              /\ buffer' = <<>>
              /\ handled' = handled
              /\ buffer_mode' = buffer_mode
       /\ IsPrefix(handled, handled')
       /\ \A i \in (Len(handled) + 1)..Len(handled') :
              \/ handled'[i] \in Range(buffer)
              \/ Narrated /\ handled'[i].id = nextId
       /\ (~buffer_mode /\ enabled /\ Narrated /\ op'.name # "context_convey") =>
              /\ Len(handled') = Len(handled) + 1
              /\ handled'[Len(handled')].id = nextId]_vars

\* A clear has just discarded two entries of a kinked buffer.
C6_Witness ==
    /\ op.name = "clear_buffer"
    /\ op.n = 2
    /\ buffer_mode
    /\ buffer = <<>>
    /\ handled = <<>>

\* C7: a flush delivers every buffered entry exactly once, in recorded order,
\* and leaves the buffer empty, whether called while Kinked or while Flowing.
C7_FlushDeliversAll ==
    [][(op'.name = "flush_buffer") =>
          /\ handled' = handled \o buffer
          /\ buffer' = <<>>]_vars

\* C8: flushing an empty buffer calls no handler, raises nothing and leaves
\* the buffer empty and the mode unchanged; a flush that follows a flush
\* changes nothing.
C8_FlushEmptyIsNoOp ==
    [][/\ (op'.name = "flush_buffer" /\ buffer = <<>>) =>
              /\ handled' = handled
              /\ buffer' = <<>>
              /\ buffer_mode' = buffer_mode
              /\ ~raising'
       /\ (op.name = "flush_buffer" /\ ~raising /\ op'.name = "flush_buffer") =>
              /\ handled' = handled
              /\ buffer' = buffer
              /\ buffer_mode' = buffer_mode
              /\ ~raising']_vars

\* A flush called on an empty buffer has returned, records having been
\* delivered before.
C8_Witness ==
    /\ op.name = "flush_buffer"
    /\ op.n = 0
    /\ handled # <<>>
    /\ buffer = <<>>
    /\ ~raising

\* C9: entering the kinked scope sets the mode to Kinked; once the scope has
\* been left, on any exit path, the mode is Flowing.
C9_UnkinkOnEveryExit ==
    [][/\ (op'.name = "records_buffered") => buffer_mode'
       /\ (op'.name = "records_buffered.exit") => ~buffer_mode']_vars

\* C10: entering a kinked scope while already Kinked is signalled as an error
\* and opens no scope, so the mode is Kinked for as long as a kinked scope is
\* open.
C10_DoubleKinkIsError ==
    [][/\ (buffer_mode /\ op'.name = "records_buffered") =>
              (raising' /\ scopes' = scopes)
       /\ ("kink" \in Range(scopes')) => buffer_mode']_vars

(***************************************************************************)
(* Claims about the indentation and the stdout adapter.                    *)
(***************************************************************************)

\* C11: whatever sequence of add_level, remove_level and next_level
\* operations is run, the nesting depth is never negative; remove_level
\* called at depth 0 leaves the depth at 0 and raises nothing.
C11_LevelNeverNegative ==
    /\ level >= 0
    /\ (op.name = "remove_level" /\ op.n = 0) => (level = 0 /\ ~raising)

\* remove_level has been called at depth 0, after the depth had been raised
\* and lowered again.
C11_Witness ==
    /\ op.name = "remove_level" /\ op.n = 0
    /\ level = 0
    /\ log # <<>>

\* The indentation prefix of a logged message: all but the line.
Prefix(msg) == SubSeq(msg, 1, Len(msg) - 1)

\* C13: a line is logged with a prefix of depth * INDENT_SIZE indent
\* characters, the depth being the one at the time of logging, and with no
\* prefix when indentation is disabled.
C13_LinePrefixedByDepth ==
    [][Len(log') = Len(log) + 1 =>
          LET prefix == Prefix(log'[Len(log')])
          IN  /\ Len(prefix) = IF indent_enabled THEN level * INDENT_SIZE ELSE 0
              /\ \A i \in 1..Len(prefix) : prefix[i] = INDENT_CHAR]_vars

\* Three nested beats and a beat after they returned have been logged with
\* 0, 1, 2 and 0 indentation units.
C13_Witness ==
    /\ indent_enabled
    /\ Len(log) = 4
    /\ [i \in 1..4 |-> Len(Prefix(log[i]))] =
           <<0, INDENT_SIZE, 2 * INDENT_SIZE, 0>>
    /\ scopes = <<"beat">>

(***************************************************************************)
(* Claims about settings.LOG_ACTIONS.                                      *)
(***************************************************************************)

\* C16: while LOG_ACTIONS is False a call of a beat-decorated function runs
\* the function exactly once and hands back what it returned, and an aside
\* returns; neither reaches the handler, appends to the buffer, changes the
\* depth or raises.
C16_SilentWhenLoggingOff ==
    [][/\ (~LOG_ACTIONS /\ op'.name \in {"beat", "aside"}) =>
              /\ handled' = handled
              /\ buffer' = buffer
              /\ level' = level
              /\ nextId' = nextId
              /\ ~raising'
              /\ op'.name = "beat" => Len(ran') = Len(ran) + 1
              /\ op'.name = "aside" => ran' = ran
       /\ (op'.name = "beat.exit" /\ Top = "func") =>
              /\ handled' = handled
              /\ buffer' = buffer
              /\ level' = level
              /\ ran' = ran
              /\ raising' = raising]_vars

\* A beat-decorated function was called and has returned a value while
\* LOG_ACTIONS was False and records were being buffered: nothing was
\* buffered or narrated.
C16_Witness ==
    /\ ~LOG_ACTIONS
    /\ op.name = "beat.exit" /\ op.retval
    /\ ran = <<0>>
    /\ buffer_mode /\ buffer = <<>> /\ handled = <<>>
    /\ level = 0

(***************************************************************************)
(* Claims about beats: depth, the caller's view, the derived aside.        *)
(***************************************************************************)
NumBeats(sc) == Cardinality({i \in 1..Len(sc) : sc[i] = "beat"})

\* C12: inside the k-th of nested beats the depth is the starting depth plus
\* k, and once the outermost beat has been left the depth is the starting
\* depth again, whether the beats returned or raised.
C12_DepthFollowsNesting == level = NumBeats(scopes)

\* The inner of two nested beats has been left by an exception: the depth is
\* that of the outer beat's body.
C12_Witness ==
    /\ op.name = "beat.exit"
    /\ raising
    /\ scopes = <<"beat">>
    /\ level = 1
    /\ Len(ran) = 2

\* C15: narration is transparent to the caller of a beat: when the function
\* returns, the caller receives its return value, and when it raises, the
\* caller observes that exception; the wrapper raises nothing of its own,
\* neither before the function is called nor after it has returned.
C15_NarrationTransparent ==
    [][/\ op'.name = "beat" => ~raising'
       /\ op'.name = "beat.exit" => (raising' = raising)]_vars

\* C17: when the function of a beat returns a result, exactly one aside is
\* derived from it, at the beat's depth plus one and before the beat is left,
\* and it takes the path of any aside: delivered while Flowing, buffered while
\* Kinked. No aside is derived when the function returns None or raises.
C17_DerivedAside ==
    [][(op'.name = "beat.exit" /\ Top = "beat") =>
          LET r == make_record(ASIDE, nextId, NumBeats(Pop) + 1)
          IN  /\ Narrated <=> op'.retval
              /\ raising => ~Narrated
              /\ (op'.retval /\ enabled /\ ~buffer_mode) =>
                     (handled' = Append(handled, r) /\ buffer' = buffer)
              /\ (op'.retval /\ enabled /\ buffer_mode
                      /\ Len(buffer) + 1 < capacity) =>
                     (buffer' = Append(buffer, r) /\ handled' = handled)
              /\ ~op'.retval => (handled' = handled /\ buffer' = buffer)
              /\ scopes' = Pop
              /\ level' = NumBeats(Pop)]_vars

\* The function of a beat called while Kinked has returned a result: the
\* beat and the aside derived from the result are in the buffer, the aside one
\* level deeper, and nothing has been delivered.
C17_Witness ==
    /\ op.name = "beat.exit" /\ op.retval
    /\ buffer_mode
    /\ buffer = <<make_record(BEAT, 1, 0), make_record(ASIDE, 2, 1)>>
    /\ handled = <<>>
    /\ scopes = <<"kink">>

(***************************************************************************)
(* Claims about the Allure adapter.                                        *)
(***************************************************************************)

\* The severity the report is to show for a gravitas.
SeverityOf(gravitas) ==
    CASE gravitas = AIRY -> "TRIVIAL"
      [] gravitas = LIGHT -> "MINOR"
      [] gravitas = NORMAL -> "NORMAL"
      [] gravitas = HEAVY -> "CRITICAL"
      [] gravitas = EXTREME -> "BLOCKER"
      [] gravitas = None -> "NORMAL"

\* C18: every act and every scene is tagged with a severity exactly once, the
\* one its gravitas maps to; an unspecified gravitas (None) is tagged NORMAL.
C18_SeverityTaggedOnce ==
    \A i \in 1..Len(tags) : tags[i].severity = <<SeverityOf(tags[i].gravitas)>>

(***************************************************************************)
(* Claims about leaving the buffered block of the loop run.                *)
(***************************************************************************)
IsSuffix(s, t) == Len(s) <= Len(t) /\ SubSeq(t, Len(t) - Len(s) + 1, Len(t)) = s

\* C19 (as stated): in the loop run, for any K, after the loop and still
\* inside the buffered block the buffer holds the last iteration's records and
\* the mode is Kinked; once the block has been left, without any call of
\* flush_buffer, those records have been delivered in recorded order, the
\* buffer is empty and the mode is Flowing.
C19_LeavingDelivers ==
    /\ loop_pc = "exit" => (Ids(buffer) = LastIteration /\ buffer_mode)
    /\ loop_pc = "flush" =>
           /\ IsSuffix(LastIteration, Ids(handled))
           /\ buffer = <<>>
           /\ ~buffer_mode

\* C19 (amended): the same when each iteration records fewer narrations than
\* the buffer's capacity; nothing has been delivered before the block is
\* left, and leaving it delivers exactly the last iteration's records.
C19_LeavingDeliversBelowCapacity ==
    K < capacity =>
        /\ loop_pc = "exit" =>
               /\ Ids(buffer) = LastIteration
               /\ buffer_mode
               /\ handled = <<>>
        /\ loop_pc = "flush" =>
               /\ Ids(handled) = LastIteration
               /\ buffer = <<>>
               /\ ~buffer_mode

\* The block has just been left after two or more iterations of two or more
\* narrations each: they are delivered, the buffer is empty, the mode Flowing.
C19_Witness ==
    /\ loop_pc = "flush"
    /\ op.name = "records_buffered.exit" /\ op.n = K
    /\ limit >= 2 /\ K >= 2 /\ K < capacity
    /\ Ids(handled) = LastIteration
    /\ buffer = <<>> /\ ~buffer_mode

(***************************************************************************)
(* Claims about the report steps of replayed records.                      *)
(***************************************************************************)

\* The records the caller's last operation replayed from the buffer: a flush
\* that did not raise delivered the op.n records the buffer held.
Replayed ==
    IF op.name \in {"flush_buffer", "records_buffered.exit"} /\ ~raising
    THEN SubSeq(handled, Len(handled) - op.n + 1, Len(handled))
    ELSE <<>>

\* In the sequence hs, record j was issued inside the body of the beat i:
\* every record after i up to j is deeper than i.
InsideBody(hs, i, j) ==
    /\ i < j
    /\ hs[i].msgtype = BEAT
    /\ \A m \in (i + 1)..j : hs[m].level > hs[i].level

\* C20: when buffered narrations are replayed, the report step of a beat is
\* still open while the narrations issued inside its body are replayed: it is
\* closed after their steps are closed.
C20_ReplayKeepsNesting ==
    LET hs == Replayed
        steps == allure_steps(hs)
    IN  \A i, j \in 1..Len(hs) :
            InsideBody(hs, i, j) =>
                \A p, q \in 1..Len(steps) :
                    (/\ steps[p] = [kind |-> "close", id |-> hs[i].id]
                     /\ steps[q] = [kind |-> "close", id |-> hs[j].id]) => q < p

(***************************************************************************)
(* Claims about narration recorded while records are buffered              *)
(* (test_log_buffered).                                                    *)
(***************************************************************************)

\* The indentation of depth d: d units of INDENT_SIZE characters, nothing
\* when indentation is disabled.
Indentation(d) ==
    IF indent_enabled THEN [i \in 1..(d * INDENT_SIZE) |-> INDENT_CHAR] ELSE <<>>

Msgs(hs) == [i \in 1..Len(hs) |-> hs[i].msg]

\* The id of the j-th narration of the last iteration of test_log_buffered
\* (the beat "1" is narration 1, each iteration issues K narrations).
LastOf(j) == 1 + (limit - 1) * K + j

\* C21: a narration recorded while records are buffered is rendered when it
\* is issued, with the indentation of the depth at that time, and is
\* delivered with that text whatever the depth at the time of the flush; for
\* Beat 1 { buffered loop: Aside 2, Beat 3 { Aside 4 } } (the iteration fitting
\* in the buffer) the lines delivered are "1", indent + "2", indent + "3",
\* 2 * indent + "4" of the last iteration.
C21_RenderedWhenIssued ==
    [][/\ Narrated =>
              \A r \in Range(buffer') \cup Range(handled') :
                  r.id = nextId => r.msg = Indentation(level) \o <<nextId>>
       /\ \A i \in (Len(handled) + 1)..Len(handled') :
              \/ handled'[i] \in Range(buffer)
              \/ Narrated /\ handled'[i].msg = Indentation(level) \o <<nextId>>
       /\ (loop_pc' = "done" /\ K < capacity) =>
              Msgs(handled') = << <<1>>,
                                 Indentation(1) \o <<LastOf(1)>>,
                                 Indentation(1) \o <<LastOf(2)>>,
                                 Indentation(2) \o <<LastOf(3)>> >>]_vars

\* The run is over after two or more iterations: the aside of the inner beat,
\* issued at depth 2 and flushed at depth 1, is delivered with two units.
C21_Witness ==
    /\ loop_pc = "done"
    /\ limit >= 2
    /\ indent_enabled
    /\ K < capacity
    /\ Len(handled) = 4
    /\ handled[4].msg = Indentation(2) \o <<LastOf(3)>>
    /\ Len(handled[4].msg) = 2 * INDENT_SIZE + 1

\* The narrations issued since the last clear of test_log_buffered, in order.
SinceClear == [i \in 1..k |-> nextId - k - 1 + i]

\* C22 (as stated): while records are buffered, the body of a beat called
\* inside the buffered block is run and every narration issued since the last
\* clear, those of the body included, is in the buffer, whatever the buffer's
\* capacity: after the loop, and still inside the block, it holds the 3
\* entries of the last iteration.
C22_NestedNarrationRecorded ==
    /\ loop_pc = "aside4" => (buffer_mode /\ ran[Len(ran)] = nextId - 1)
    /\ loop_pc \in {"beat3", "aside4", "exit3", "unkink"} =>
           Ids(buffer) = SinceClear
    /\ loop_pc = "unkink" => (buffer_mode /\ Len(buffer) = 3)

\* C22 (amended): the same when the iteration's narrations are fewer than the
\* buffer's capacity; the body of the beat is run whatever the capacity.
C22_NestedNarrationRecordedBelowCapacity ==
    /\ loop_pc = "aside4" => (buffer_mode /\ ran[Len(ran)] = nextId - 1)
    /\ K < capacity =>
           /\ loop_pc \in {"beat3", "aside4", "exit3", "unkink"} =>
                  Ids(buffer) = SinceClear
           /\ loop_pc = "unkink" => (buffer_mode /\ Len(buffer) = 3)

\* After the loop, inside the block: the buffer holds the aside, the beat and
\* the aside of the beat's body of the last of two or more iterations.
C22_Witness ==
    /\ loop_pc = "unkink"
    /\ limit >= 2
    /\ K < capacity
    /\ buffer_mode
    /\ Ids(buffer) = <<LastOf(1), LastOf(2), LastOf(3)>>
    /\ <<buffer[1].msgtype, buffer[2].msgtype, buffer[3].msgtype>> = <<ASIDE, BEAT, ASIDE>>
    /\ buffer[3].level = buffer[2].level + 1
    /\ LastOf(2) \in Range(ran)

(***************************************************************************)
(* Claims about the buffer and the modes.                                  *)
(***************************************************************************)

\* C28: in every reachable state in which records are not buffered
\* (buffer_mode is False) the buffer is empty, whatever the interleaving of
\* buffered blocks, narrations, clear_buffer and flush_buffer.
C28_FlowingBufferEmpty == ~buffer_mode => buffer = <<>>

\* A buffered block that held records has just been left: the mode is
\* Flowing again and the buffer is empty.
C28_Witness ==
    /\ op.name = "records_buffered.exit"
    /\ op.n >= 2
    /\ ~buffer_mode
    /\ buffer = <<>>
    /\ Len(handled) >= 2

\* C29: while output is disabled, handling a record calls no handler and
\* leaves the buffer and the buffering mode as they are, buffered or not; and
\* disable_output / enable_output change neither the buffer, nor the mode,
\* nor what has been delivered.
C29_DisabledIsPassThrough ==
    [][/\ (~enabled /\ Narrated) =>
              /\ handled' = handled
              /\ buffer' = buffer
              /\ buffer_mode' = buffer_mode
              /\ ~raising'
       /\ op'.name \in {"disable_output", "enable_output"} =>
              /\ handled' = handled
              /\ buffer' = buffer
              /\ buffer_mode' = buffer_mode]_vars

\* Output was disabled while the buffer held a record, and an aside has been
\* issued since: the buffer still holds that record only.
C29_Witness ==
    /\ ~enabled
    /\ buffer_mode
    /\ op.name = "aside"
    /\ op.n = 1
    /\ Len(buffer) = 1
    /\ buffer[1].id < nextId - 1
    /\ handled = <<>>

\* C30 (as stated): while records are buffered with a capacity of 1 or more,
\* after every handle call that returns the buffer holds fewer records than
\* the capacity: the record with which the buffer reaches the capacity has all
\* the buffered records, itself included, delivered at once in order and the
\* buffer emptied, the mode staying buffered.
C30_BufferBelowCapacity ==
    [][(buffer_mode /\ capacity >= 1 /\ Narrated /\ ~raising') =>
          /\ Len(buffer') < capacity
          /\ buffer_mode'
          /\ (enabled /\ Len(buffer) + 1 >= capacity) =>
                 /\ Ids(handled') = Ids(handled) \o Ids(buffer) \o <<nextId>>
                 /\ buffer' = <<>>]_vars

\* C30 (amended): the same for a handle call made with output enabled; with
\* output disabled the call leaves a buffer that set_capacity has put at or
\* above the capacity as it is.
C30_BufferBelowCapacityWhenEnabled ==
    [][(enabled /\ buffer_mode /\ capacity >= 1 /\ Narrated /\ ~raising') =>
          /\ Len(buffer') < capacity
          /\ buffer_mode'
          /\ Len(buffer) + 1 >= capacity =>
                 /\ Ids(handled') = Ids(handled) \o Ids(buffer) \o <<nextId>>
                 /\ buffer' = <<>>]_vars

\* An aside has just filled a buffer of capacity 2: the record buffered before
\* it and the aside are delivered, the buffer is empty, the mode buffered.
C30_Witness ==
    /\ enabled
    /\ buffer_mode
    /\ capacity = 2
    /\ op.name = "aside"
    /\ op.n = 1
    /\ buffer = <<>>
    /\ Len(handled) = 2
    /\ handled[2].id = nextId - 1

(***************************************************************************)
(* Further claims about the microphone.                                    *)
(***************************************************************************)

\* C24: of two channel invocations made one after the other, the first fully
\* exited before the second starts, every wrap and close call of the first
\* comes before any of the second: the adapters' calls are only ever added
\* at the end, and once an invocation has finished no call is made for it.
C24_SequentialInOrder ==
    [][/\ IsPrefix(calls, calls')
       /\ \A i \in 1..invocation :
              Finished(i) =>
                  \A p \in (Len(calls) + 1)..Len(calls') :
                      /\ calls'[p].inv # i
                      /\ invocation' > invocation => calls'[p].inv = invocation']_vars

\* Two invocations have run one after the other over two adapters: the four
\* calls of the first come before the four calls of the second.
C24_Witness ==
    /\ Len(adapters) = 2
    /\ invocation = 2
    /\ current = 0
    /\ [p \in 1..Len(calls) |-> calls[p].inv] = <<1, 1, 1, 1, 2, 2, 2, 2>>
    /\ [p \in 1..Len(calls) |-> calls[p].kind] =
           <<"wrap", "wrap", "close", "close", "wrap", "wrap", "close", "close">>

\* The adapters' calls the step added.
NewCalls == SubSeq(calls', Len(calls) + 1, Len(calls'))

\* An adapter raised in the step while it was asked to wrap.
RaisedAtWrap ==
    \E p \in 1..Len(NewCalls) : NewCalls[p].kind = "wrap" /\ NewCalls[p].raised

\* C25: when an adapter raises while wrapping a channel invocation, the error
\* reaches the caller at once: the raising call is the last call made to an
\* adapter (no later adapter is asked to wrap), every adapter up to it was
\* asked exactly once (nothing is retried), no callable is yielded to the
\* caller and no with-block is entered, so the work is not executed under
\* the invocation.
C25_WrapErrorPropagates ==
    [][RaisedAtWrap =>
          /\ IsPrefix(calls, calls')
          /\ \A p \in 1..Len(NewCalls) :
                 /\ NewCalls[p].kind = "wrap"
                 /\ NewCalls[p].inv = invocation'
                 /\ NewCalls[p].raised <=> p = Len(NewCalls)
          /\ AdaptersOf(NewCalls) = SubSeq(adapters, 1, Len(NewCalls))
          /\ mic_error' = "AdapterError"
          /\ yielded' = yielded
          /\ <<channel', current', outer', exits'>> = <<channel, current, outer, exits>>]_vars

\* The second of three adapters raised while a beat was being wrapped: the
\* first two were asked, the third was not, nothing was yielded.
C25_Witness ==
    /\ Len(adapters) = 3
    /\ invocation = 1
    /\ mic_error = "AdapterError"
    /\ AdaptersOf(calls) = <<1, 2>>
    /\ calls[1].kind = "wrap" /\ ~calls[1].raised
    /\ calls[2].kind = "wrap" /\ calls[2].raised
    /\ calls[2].channel = "beat"
    /\ yielded = <<>>
    /\ current = 0

\* An adapter raised while invocation inv was being wrapped.
FailedAtWrap(inv) == \E p \in 1..Len(Wraps(inv)) : Wraps(inv)[p].raised

\* C26: in every channel invocation in which no adapter raises, the adapters
\* are asked to wrap in registration order, adapter i is given the work as
\* decorated by adapters 1..i-1, and the callable yielded to the caller is the
\* one the last adapter returned; with no adapter the work itself is yielded
\* and no close call is made.
C26_DecorationChain ==
    \A inv \in 1..invocation :
        ~FailedAtWrap(inv) =>
            LET w == Wraps(inv)
            IN  /\ AdaptersOf(w) = adapters
                /\ \A i \in 1..Len(w) : w[i].func = AdaptersOf(SubSeq(w, 1, i - 1))
                /\ \E y \in 1..Len(yielded) :
                       /\ yielded[y].inv = inv
                       /\ yielded[y].func =
                              IF adapters = <<>> THEN Work
                              ELSE decorate(adapters[Len(adapters)], w[Len(w)].func)
                /\ adapters = <<>> => Closes(inv) = <<>>

(***************************************************************************)
(* Claims about the lines and the depth of the stdout adapter.             *)
(***************************************************************************)

\* The length of one unit of indentation as configured.
Unit == IF indent_enabled THEN INDENT_SIZE ELSE 0

\* The places in sc of the func_wrappers of beats being run.
RunningBeats(sc) == {i \in 1..Len(sc) : sc[i].channel = "beat"}

Innermost(S) == CHOOSE i \in S : \A j \in S : j <= i

\* The step called the func_wrapper of channel ch.
CalledWrapper(ch) ==
    /\ op'.name = "call"
    /\ Len(scopes') = Len(scopes) + 1
    /\ scopes'[Len(scopes')].channel = ch

\* C23: the line of an aside issued in the body of a beat is logged after
\* the beat's line and indented exactly one unit deeper than it; with beats
\* nested k deep, the aside of the j-th beat has j units of indentation, and
\* the aside of a later top-level beat has exactly 1 unit again.
C23_AsideOneLevelDeeper ==
    [][CalledWrapper("aside") =>
          LET beats == RunningBeats(scopes)
              line == log'[Len(log')]
          IN  /\ log' = Append(log, line)
              /\ Len(line) = Cardinality(beats) * Unit + 1
              /\ \A c \in 1..(Len(line) - 1) : line[c] = INDENT_CHAR
              /\ beats # {} =>
                     LET b == scopes[Innermost(beats)]
                     IN  /\ b.line < Len(log')
                         /\ Len(line) = Len(log[b.line]) + Unit]_vars

\* Two nested beats have each issued an aside: the lines are the first beat,
\* its aside with 1 unit, the second beat with 1 unit, its aside with 2.
C23_Witness ==
    /\ indent_enabled
    /\ Len(scopes) = 3
    /\ <<scopes[1].channel, scopes[2].channel, scopes[3].channel>> =
           <<"beat", "beat", "aside">>
    /\ Len(log) = 4
    /\ <<Len(log[1]), Len(log[2]), Len(log[3]), Len(log[4])>> =
           <<1, INDENT_SIZE + 1, INDENT_SIZE + 1, 2 * INDENT_SIZE + 1>>
    /\ scopes[3].line = 4

\* C27: only a beat changes the depth, and only while its work is running:
\* starting the generator of any channel leaves the depth as it is, calling
\* or leaving the func_wrapper of an act, a scene or an aside leaves it as it
\* is, and the depth is at all times the number of beats whose func is being
\* run.
C27_OnlyRunningBeatsNest ==
    [][/\ op'.name = "wrap" => level' = level
       /\ \A ch \in Channels \ {"beat"} : CalledWrapper(ch) => level' = level
       /\ CalledWrapper("beat") => level' = level + 1
       /\ (op'.name = "return" /\ scopes # <<>>) =>
              level' = IF Top.channel = "beat" THEN level - 1 ELSE level
       /\ level' = Cardinality(RunningBeats(scopes'))]_vars

\* An act is running, in it a beat, in it an aside, and another beat has been
\* wrapped and not called: the depth is 1.
C27_Witness ==
    /\ Len(scopes) = 3
    /\ <<scopes[1].channel, scopes[2].channel, scopes[3].channel>> =
           <<"act", "beat", "aside">>
    /\ wrappers["beat"] = 1
    /\ op.name = "wrap"
    /\ level = 1

(***************************************************************************)
(* Claims about no_logging blocks.                                         *)
(***************************************************************************)

\* The caller is inside a no_logging block.
InNoLogging(sc) == \E i \in 1..Len(sc) : sc[i] = "no_logging"

\* C33: inside a no_logging block LOG_ACTIONS is False and a beat or an aside
\* makes no narration; once the block is left, the body having returned or
\* raised, LOG_ACTIONS is True.
C33_NoLoggingScope ==
    [][/\ InNoLogging(scopes') => ~LOG_ACTIONS'
       /\ (InNoLogging(scopes) /\ op'.name \in {"beat", "aside"}) =>
              /\ nextId' = nextId
              /\ handled' = handled
              /\ buffer' = buffer
       /\ (op'.name = "no_logging.exit" /\ ~InNoLogging(scopes')) =>
              LOG_ACTIONS']_vars

\* C34: when a no_logging block is left inside another no_logging block,
\* LOG_ACTIONS is still False in the rest of the outer block.
C34_OuterScopeStaysSilent ==
    [][(op'.name = "no_logging.exit" /\ InNoLogging(scopes')) =>
          ~LOG_ACTIONS']_vars

(***************************************************************************)
(* Claim about the time at which the stdout adapter logs.                  *)
(***************************************************************************)

\* C35: the stdout adapter logs when the decorated work is called, not when
\* it is asked to wrap: starting the generator of an act, a scene, a beat or
\* an aside logs nothing; each call of a func_wrapper logs exactly one line,
\* before func runs (whatever func logs comes after it), and the func_wrapper
\* returns what func returned.
C35_LogsWhenCalled ==
    [][/\ op'.name = "wrap" => log' = log
       /\ op'.name = "call" =>
              /\ Len(log') = Len(log) + 1
              /\ IsPrefix(log, log')
              /\ scopes'[Len(scopes')].line = Len(log')
              /\ scopes'[Len(scopes')].channel = "act" => log'[Len(log')][1] = "ACT"
              /\ scopes'[Len(scopes')].channel = "scene" => log'[Len(log')][1] = "Scene:"
       /\ \A i, j \in 1..Len(scopes') : i < j => scopes'[i].line < scopes'[j].line
       /\ op'.name = "return" =>
              /\ log' = log
              /\ ~raising' => op'.result = op'.func_result]_vars

\* An act, a scene and a beat were wrapped and called one inside the other;
\* the beat's func has returned a value and the beat's func_wrapper handed
\* it on: three lines are logged, one per call.
C35_Witness ==
    /\ op.name = "return"
    /\ op.result = "value"
    /\ ~raising
    /\ Len(scopes) = 2
    /\ <<scopes[1].channel, scopes[2].channel>> = <<"act", "scene">>
    /\ Len(log) = 3
    /\ log[1][1] = "ACT"
    /\ log[2][1] = "Scene:"

(***************************************************************************)
(* Claim about how often a record is delivered.                            *)
(***************************************************************************)

\* C32: every record is delivered to the handler at most once over the whole
\* run, whatever the sequence of narrations, flushes and buffered blocks,
\* also when the handler raises for a record in the middle of a flush: the
\* records the failed flush delivered are not delivered again.
C32_DeliveredAtMostOnce ==
    \A i, j \in 1..Len(handled) : i # j => handled[i].id # handled[j].id

(***************************************************************************)
(* Claims about ScreenPyLogger.                                            *)
(***************************************************************************)
\* C31: in buffering mode a record whose level is at least flush_level is
\* never left in the buffer: handling it hands every record buffered so far
\* and then that record to logging.Logger.handle, in recorded order, and
\* empties the buffer; a record below flush_level that does not fill the
\* buffer is only appended and nothing is delivered.
C31_FlushLevelFlushes ==
    [][/\ \A i \in 1..Len(logger_buffer') :
              logger_buffer'[i].levelno < flush_level'
       /\ (logger_op'.name = "handle" /\ logger_buffer_mode) =>
              LET record == [id |-> logger_next,
                             levelno |-> logger_op'.levelno]
              IN  /\ record.levelno >= flush_level =>
                         /\ emitted' = (emitted \o logger_buffer) \o <<record>>
                         /\ logger_buffer' = <<>>
                  /\ (/\ record.levelno < flush_level
                      /\ Len(logger_buffer) + 1 < logger_capacity) =>
                         /\ logger_buffer' = Append(logger_buffer, record)
                         /\ emitted' = emitted]_vars

\* Inside one records_buffered block with the default flush_level, two INFO
\* records and then an ERROR record were logged: the three were delivered in
\* that order by the ERROR record and the buffer is empty.
C31_Witness ==
    /\ logger_op = [name |-> "handle", levelno |-> ERROR]
    /\ logger_buffer_mode
    /\ logger_blocks = 1
    /\ flush_level = ERROR
    /\ logger_capacity = DefaultCapacity
    /\ logger_buffer = <<>>
    /\ emitted = << [id |-> 1, levelno |-> INFO], [id |-> 2, levelno |-> INFO],
                    [id |-> 3, levelno |-> ERROR] >>

====
